---- MODULE Spec2Model ----
(***************************************************************************)
(* Health aggregation core of the IoT dashboard (src/dashboard/main.py,    *)
(* src/dashboard/main_simple.py): the service probe, the status reducer,   *)
(* one refresh cycle, and the dashboard process with its cache slot, its   *)
(* request handlers and its background monitor.                            *)
(*                                                                         *)
(* Specifications:                                                         *)
(*   SpecProbe   check_service_health applied to every modelled reply      *)
(*   SpecReduce  the overall-status loop of get_system_health, both tables *)
(*   SpecCycle   one get_system_health call, probes returning in any order *)
(*   Spec        the dashboard process: handlers, monitor, cache, bus      *)
(*   SpecStore   the database process: subscriber, POST /readings, table   *)
(*   SpecQuery   the database process: stored readings and the two queries *)
(*   SpecHealth  the /health endpoints and their background publish        *)
(*   SpecLoops   the background loops of hubitat and dashboard, with       *)
(*               fairness; publish_sensor_readings                         *)
(***************************************************************************)
EXTENDS Integers, Sequences, FiniteSets, TLC

(***************************************************************************)
(* Python values                                                           *)
(***************************************************************************)

\* response_time_ms=None (Optional[float]); measured latencies are >= 0
NoLatency == -1

\* the key a dict does not hold (data.get falls back to its default)
Absent == "<absent>"

\* dict.get(key, default) on a dict modelled as a function
DictGet(d, k, default) == IF k \in DOMAIN d THEN d[k] ELSE default

\* HealthDashboard.services, in dict insertion order
ServiceNames == <<"hubitat", "weather", "govee", "database">>

ServicePort == [hubitat |-> 8000, weather |-> 8001, govee |-> 8002, database |-> 8003]

ServiceDisplayName ==
    [hubitat |-> "Hubitat Hub Control", weather |-> "Weather Data Service",
     govee |-> "Govee Sensor Service", database |-> "Database Storage Service"]

NumServices == Len(ServiceNames)

ServiceSet == {ServiceNames[i] : i \in 1..NumServices}

\* aiohttp.ClientTimeout(total=10), reported in milliseconds on timeout
TimeoutMs == 10000

(***************************************************************************)
(* What a probed service can do with one GET /health                       *)
(***************************************************************************)

\* instants of the wall clock used in the probe checks
ProbeInstants == {3, 7}

\* measured round-trip times, in ms
Latencies == {12, 250}

\* HTTP status codes a service may answer with
HttpCodes == {200, 201, 204, 404, 500}

\* values of the body's "status" field
BodyStatuses == {"healthy", "degraded", "unhealthy", "maintenance", Absent}

\* the body's "timestamp" field: an ISO-8601 string, a string that is none, or no field
IsoString(t) == [form |-> "iso", t |-> t]
GarbageString == [form |-> "garbage", t |-> 0]
AbsentField == [form |-> "absent", t |-> 0]
BodyTimestamps == {IsoString(1), GarbageString, AbsentField}

\* the body's "details" field: a map (set of key/value pairs), a non-map, or no field
DetailsMap(m) == [form |-> "map", map |-> m]
DetailsNonMap == [form |-> "nonmap", map |-> {}]
DetailsAbsent == [form |-> "absent", map |-> {}]
BodyDetails == {DetailsMap({<<"redis", "connected">>}), DetailsNonMap, DetailsAbsent}

NoBody == [json |-> "invalid", status |-> Absent, timestamp |-> AbsentField,
           details |-> DetailsAbsent]

Bodies ==
    [json : {"object"}, status : BodyStatuses, timestamp : BodyTimestamps,
     details : BodyDetails]
    \cup {NoBody, [NoBody EXCEPT !.json = "list"]}

Response(code, body, latency) ==
    [kind |-> "response", code |-> code, body |-> body, latency |-> latency,
     err |-> ""]
TimeoutReply == [kind |-> "timeout", code |-> 0, body |-> NoBody, latency |-> 0,
                 err |-> ""]
ConnFail(err) == [kind |-> "connfail", code |-> 0, body |-> NoBody, latency |-> 0,
                  err |-> err]

Replies ==
    {Response(c, b, l) : c \in HttpCodes, b \in Bodies, l \in Latencies}
    \cup {TimeoutReply}
    \cup {ConnFail(e) : e \in {"Connection refused", "Name or service not known",
                               "Server disconnected"}}

(***************************************************************************)
(* ServiceHealth and check_service_health                                  *)
(***************************************************************************)

ServiceHealth(service, status, timestamp, details, response_time_ms) ==
    [service |-> service, status |-> status, timestamp |-> timestamp,
     details |-> details, response_time_ms |-> response_time_ms]

Returned(h) == [exc |-> "none", msg |-> "", health |-> h]
Raised(exc, msg) ==
    [exc |-> exc, msg |-> msg, health |-> ServiceHealth("", "", 0, {}, NoLatency)]

\* datetime.isoformat / datetime.fromisoformat on the modelled strings
isoformat(t) == IsoString(t)
fromisoformat_ok(s) == s.form = "iso"
fromisoformat(s) == s.t

\* the 200 branch: response.json(), the three data.get calls, ServiceHealth(...)
ParseHealthBody(service_name, body, response_time, now) ==
    IF body.json = "invalid"
    THEN Raised("Exception", "ContentTypeError")
    ELSE IF body.json # "object"
    THEN Raised("Exception", "AttributeError")
    ELSE LET status == IF body.status = Absent THEN "unknown" ELSE body.status
             ts == IF body.timestamp.form = "absent" THEN isoformat(now)
                   ELSE body.timestamp
             details == IF body.details.form = "absent" THEN DetailsMap({})
                        ELSE body.details
         IN  IF ~fromisoformat_ok(ts)
             THEN Raised("Exception", "ValueError")
             ELSE IF details.form # "map"
             THEN Raised("Exception", "ValidationError")
             ELSE Returned(ServiceHealth(service_name, status, fromisoformat(ts),
                                         details.map, response_time))

\* the non-200 branch
HttpErrorHealth(service_name, name, code, response_time, now) ==
    ServiceHealth(service_name, "error", now,
                  {<<"error", "HTTP " \o ToString(code)>>, <<"name", name>>},
                  response_time)

\* the body of the try block
TryProbe(service_name, name, reply, now) ==
    CASE reply.kind = "timeout" -> Raised("TimeoutError", "")
      [] reply.kind = "connfail" -> Raised("Exception", reply.err)
      [] OTHER ->
            IF reply.code = 200
            THEN ParseHealthBody(service_name, reply.body, reply.latency, now)
            ELSE Returned(HttpErrorHealth(service_name, name, reply.code,
                                          reply.latency, now))

\* mutant: a timed-out probe reports no latency
TimeoutHealthNoLatency(service_name, name, now) ==
    ServiceHealth(service_name, "timeout", now,
                  {<<"error", "Request timeout">>, <<"name", name>>}, NoLatency)

\* except asyncio.TimeoutError
TimeoutHealth(service_name, name, now) ==
    ServiceHealth(service_name, "timeout", now,
                  {<<"error", "Request timeout">>, <<"name", name>>}, TimeoutMs)

\* mutant: a refused connection is reported as an unhealthy service
OfflineHealthAsUnhealthy(service_name, name, msg, now) ==
    ServiceHealth(service_name, "unhealthy", now,
                  {<<"error", msg>>, <<"name", name>>}, NoLatency)

\* except Exception as e
OfflineHealth(service_name, name, msg, now) ==
    ServiceHealth(service_name, "offline", now,
                  {<<"error", msg>>, <<"name", name>>}, NoLatency)

\* mutant: the catch-all handler is missing, the exception leaves the probe
HandleExceptionMissing(service_name, name, r, now) == r

\* the two except clauses, applied to what the try block did
HandleException(service_name, name, r, now) ==
    CASE r.exc = "none" -> r
      [] r.exc = "TimeoutError" -> Returned(TimeoutHealth(service_name, name, now))
      [] OTHER -> Returned(OfflineHealth(service_name, name, r.msg, now))

check_service_health(service_name, reply, now) ==
    LET name == ServiceDisplayName[service_name]
    IN  HandleException(service_name, name,
                        TryProbe(service_name, name, reply, now), now)

(***************************************************************************)
(* The status reducer: the overall-status loop of get_system_health        *)
(***************************************************************************)

\* status_priority of dashboard/main.py
status_priority ==
    [healthy |-> 4, degraded |-> 3, unhealthy |-> 2, offline |-> 1, timeout |-> 1,
     error |-> 1]

\* mutant: unhealthy shares the lowest rank with the statuses of a service
\* that is down
status_priority_simple_flat ==
    [healthy |-> 4, responding |-> 3, degraded |-> 2, unhealthy |-> 0, offline |-> 0,
     timeout |-> 0, error |-> 0]

\* status_priority of dashboard/main_simple.py
status_priority_simple ==
    [healthy |-> 4, responding |-> 3, degraded |-> 2, unhealthy |-> 1, offline |-> 0,
     timeout |-> 0, error |-> 0]

\* mutant: the comparison is not strict, the last of equal priority wins
ReduceStepLastWins(table, overall_status, status) ==
    LET current_priority == DictGet(table, status, 0)
        overall_priority == DictGet(table, overall_status, 5)
    IN  IF current_priority <= overall_priority THEN status ELSE overall_status

\* one iteration of `for health in service_healths`
ReduceStep(table, overall_status, status) ==
    LET current_priority == DictGet(table, status, 0)
        overall_priority == DictGet(table, overall_status, 5)
    IN  IF current_priority < overall_priority THEN status ELSE overall_status

\* the loop over statuses[i..], started from overall_status
RECURSIVE ReduceFrom(_, _, _, _)
ReduceFrom(table, overall_status, statuses, i) ==
    IF i > Len(statuses) THEN overall_status
    ELSE ReduceFrom(table, ReduceStep(table, overall_status, statuses[i]),
                    statuses, i + 1)

\* overall_status = "healthy", then the loop
OverallStatus(table, statuses) == ReduceFrom(table, "healthy", statuses, 1)

(***************************************************************************)
(* get_system_health after the gather: summary, cache entry, return value  *)
(***************************************************************************)

DownStatuses == {"offline", "timeout", "error"}

\* asyncio.gather(*tasks): the results in the order of the tasks, whatever the
\* order the tasks finished in; `done` lists [task, reply, result] in completion
\* order (reply: what the probed service did, kept for the record)
ResultOfTask(done, i) == (CHOOSE k \in 1..Len(done) : done[k].task = i)

\* mutant: results collected as they complete (asyncio.as_completed)
GatherAsCompleted(done) == [k \in 1..Len(done) |-> done[k].result]

gather(done) == [i \in 1..Len(done) |-> done[ResultOfTask(done, i)].result]

StatusesOf(service_healths) ==
    [i \in 1..Len(service_healths) |-> service_healths[i].status]

\* sum(1 for h in service_healths if h.status in statuses)
CountStatus(service_healths, statuses) ==
    Cardinality({i \in 1..Len(service_healths) : service_healths[i].status \in statuses})

\* mutant: the comprehension keeps None as 0 instead of dropping it
ResponseTimesNoneAsZero(service_healths) ==
    [i \in 1..Len(service_healths) |->
        IF service_healths[i].response_time_ms = NoLatency THEN 0
        ELSE service_healths[i].response_time_ms]

\* [h.response_time_ms for h in service_healths if h.response_time_ms is not None]
ResponseTimes(service_healths) ==
    SelectSeq([i \in 1..Len(service_healths) |-> service_healths[i].response_time_ms],
              LAMBDA t : t # NoLatency)

RECURSIVE SumFrom(_, _)
SumFrom(times, i) == IF i > Len(times) THEN 0 ELSE times[i] + SumFrom(times, i + 1)

\* sum(response_times) / len(response_times), an exact quotient kept as
\* numerator and denominator; None is the quotient with denominator 0
Mean(times) == [sum |-> SumFrom(times, 1), len |-> Len(times)]
NoMean == [sum |-> 0, len |-> 0]

\* mutant: no services count as full uptime
SummaryVacuousUptime(service_healths) ==
    LET total_services == Len(service_healths)
        healthy_services == CountStatus(service_healths, {"healthy", "degraded"})
        offline_services == CountStatus(service_healths, DownStatuses)
        response_times == ResponseTimes(service_healths)
    IN  [total_services |-> total_services,
         healthy_services |-> healthy_services,
         offline_services |-> offline_services,
         avg_response_time_ms |->
            IF Len(response_times) > 0 THEN Mean(response_times) ELSE NoMean,
         uptime_percentage |->
            IF total_services > 0 THEN (healthy_services * 100) \div total_services
            ELSE 100]

Summary(service_healths) ==
    LET total_services == Len(service_healths)
        healthy_services == CountStatus(service_healths, {"healthy", "degraded"})
        offline_services == CountStatus(service_healths, DownStatuses)
        response_times == ResponseTimes(service_healths)
    IN  [total_services |-> total_services,
         healthy_services |-> healthy_services,
         offline_services |-> offline_services,
         avg_response_time_ms |->
            IF Len(response_times) > 0 THEN Mean(response_times) ELSE NoMean,
         uptime_percentage |->
            IF total_services > 0 THEN (healthy_services * 100) \div total_services
            ELSE 0]

\* last_update = None
NoTime == -1

\* self.health_cache = {...}: the slot holds no entry (<<>>) or one entry
CacheEntry(service_healths, at) ==
    [overall_status |-> OverallStatus(status_priority, StatusesOf(service_healths)),
     services |-> service_healths,
     summary |-> Summary(service_healths),
     last_update |-> at]

\* the SystemHealth returned by get_system_health and by GET /system
SystemHealth(overall_status, timestamp, services, summary) ==
    [overall_status |-> overall_status, timestamp |-> timestamp,
     services |-> services, summary |-> summary]

FreshSystemHealth(service_healths, at) ==
    SystemHealth(OverallStatus(status_priority, StatusesOf(service_healths)), at,
                 service_healths, Summary(service_healths))

(***************************************************************************)
(* database service: timestamps and SensorReading                          *)
(***************************************************************************)

\* None in an Optional[float] / Optional[int] field
NoValue == -9999

\* what datetime.now(timezone.utc) returns in the database service, in minutes
DbNow == 1000

\* the range checks of the two validators
TempMin == -100
TempMax == 150
HumMin == 0
HumMax == 100

\* an aware datetime: the instant it denotes and its UTC offset, in minutes
DateTime(t, off) == [t |-> t, off |-> off]

\* the text of a timestamp: "YYYY-MM-DDTHH:MM:SS" in local time followed by the
\* offset suffix; a string that is no timestamp; or no field
TimestampText(local, off) == [form |-> "iso", local |-> local, off |-> off]
GarbageText == [form |-> "garbage", local |-> 0, off |-> 0]
AbsentText == [form |-> "absent", local |-> 0, off |-> 0]

\* datetime.isoformat and datetime.fromisoformat on aware datetimes
isoformat_tz(dt) == TimestampText(dt.t + dt.off, dt.off)
fromisoformat_tz(s) == DateTime(s.local - s.off, s.off)

\* order of the suffixes as strings: "+00:00" < "+01:00" < "-01:00" < "-05:00"
SuffixKey(off) == IF off >= 0 THEN off ELSE 1440 - off

\* SQLite compares the TEXT of two timestamps byte by byte: the local time
\* first, the offset suffix after it
TextLeq(a, b) ==
    \/ a.local < b.local
    \/ a.local = b.local /\ SuffixKey(a.off) <= SuffixKey(b.off)

\* mutant: the temperature validator has no upper limit
validate_temperature_no_max(v) == v = NoValue \/ TempMin <= v

\* @validator('temperature'), @validator('humidity'): TRUE when v is accepted
validate_temperature(v) == v = NoValue \/ (TempMin <= v /\ v <= TempMax)
validate_humidity(v) == v = NoValue \/ (HumMin <= v /\ v <= HumMax)

\* SensorReading(...): the reading (ok), or a validation error (~ok)
SensorReading(sensor_id, temperature, humidity, battery_level, timestamp) ==
    [ok |-> /\ sensor_id # Absent
            /\ validate_temperature(temperature)
            /\ validate_humidity(humidity),
     reading |-> [sensor_id |-> sensor_id, temperature |-> temperature,
                  humidity |-> humidity, battery_level |-> battery_level,
                  timestamp |-> timestamp]]

(***************************************************************************)
(* database service: the table sensor_readings and store_reading           *)
(***************************************************************************)

\* UNIQUE(timestamp, sensor_id)
Key(row) == <<row.timestamp, row.sensor_id>>

\* the row written for a reading: reading.timestamp.isoformat() and the fields
Row(id, reading) ==
    [id |-> id, timestamp |-> isoformat_tz(reading.timestamp),
     sensor_id |-> reading.sensor_id, temperature |-> reading.temperature,
     humidity |-> reading.humidity, battery_level |-> reading.battery_level]

\* mutant: the conflicting row is kept beside the new one
InsertBeside(table, row) == table \cup {row}

\* INSERT OR REPLACE: rows that conflict on the unique key are deleted first
InsertOrReplace(table, row) == {r \in table : Key(r) # Key(row)} \cup {row}

\* DatabaseService.store_reading: disk_ok is FALSE when sqlite3 raises
store_reading(table, id, reading, disk_ok) ==
    IF disk_ok
    THEN [status |-> "success", table |-> InsertOrReplace(table, Row(id, reading)),
          row_id |-> id]
    ELSE [status |-> "error", table |-> table, row_id |-> 0]

(***************************************************************************)
(* database service: redis_subscriber, one message of pubsub.listen()      *)
(***************************************************************************)

\* the nested payload data["data"] of a published message
Payload(status, id, temperature, humidity, battery_level, timestamp) ==
    [status |-> status, id |-> id, temperature |-> temperature,
     humidity |-> humidity, battery_level |-> battery_level,
     timestamp |-> timestamp]

\* data.get("data", {}) when the message has no "data" key
EmptyPayload == Payload(Absent, Absent, NoValue, NoValue, NoValue, AbsentText)

\* what listen() yields: the type, the channel, whether the text is JSON (and a
\* JSON object), whether the object has a "data" key, and the payload
Message(type, channel, json, has_data, payload) ==
    [type |-> type, channel |-> channel, json |-> json, has_data |-> has_data,
     payload |-> payload]

NoMessage == Message("none", "", "invalid", FALSE, EmptyPayload)

\* mutant: every payload is taken as a success
ReportsSuccessAlways(sensor_data) == TRUE

\* sensor_data.get("status") == "success"
ReportsSuccess(sensor_data) == sensor_data.status = "success"

\* sensor_data.get("device_id", "unknown"), or
\* f"weather_{weather_data.get('location', 'unknown')}"
SensorIdOf(channel, sensor_data) ==
    LET id == IF sensor_data.id = Absent THEN "unknown" ELSE sensor_data.id
    IN  IF channel = "sensor-data" THEN id ELSE "weather_" \o id

\* battery_level of the reading built from a payload
BatteryOf(channel, sensor_data) ==
    IF channel = "sensor-data" THEN sensor_data.battery_level ELSE NoValue

Handled(outcome, raised, table) ==
    [outcome |-> outcome, raised |-> raised, table |-> table]

\* the body of the inner try block for one message
TryMessage(table, id, msg, disk_ok) ==
    IF msg.type # "message" THEN Handled("ignored", FALSE, table)
    ELSE IF msg.json = "invalid" THEN Handled("raised", TRUE, table)
    ELSE IF msg.json # "object" THEN Handled("raised", TRUE, table)
    ELSE LET sensor_data == IF msg.has_data THEN msg.payload ELSE EmptyPayload
         IN  IF ~ReportsSuccess(sensor_data) THEN Handled("skipped", FALSE, table)
             ELSE LET text == IF sensor_data.timestamp.form = "absent"
                              THEN isoformat_tz(DateTime(DbNow, 0))
                              ELSE sensor_data.timestamp
                  IN  IF text.form # "iso" THEN Handled("raised", TRUE, table)
                      ELSE LET c == SensorReading(SensorIdOf(msg.channel, sensor_data),
                                                  sensor_data.temperature,
                                                  sensor_data.humidity,
                                                  BatteryOf(msg.channel, sensor_data),
                                                  fromisoformat_tz(text))
                               result == store_reading(table, id, c.reading, disk_ok)
                           IN  IF ~c.ok THEN Handled("rejected", TRUE, table)
                               ELSE IF result.status = "success"
                               THEN Handled("stored", FALSE, result.table)
                               ELSE Handled("store_error", FALSE, table)

\* mutant: no inner handler, an exception reaches the outer one and the loop ends
LoopAfterUncaught(r) == IF r.raised THEN "ended" ELSE "listening"

\* the inner except Exception logs; the for loop takes the next message
LoopAfter(r) == "listening"

(***************************************************************************)
(* database service: POST /readings                                        *)
(***************************************************************************)

\* the JSON body of the request
Request(sensor_id, temperature, humidity, battery_level, timestamp) ==
    [sensor_id |-> sensor_id, temperature |-> temperature, humidity |-> humidity,
     battery_level |-> battery_level, timestamp |-> timestamp]

NoRequest == Request(Absent, NoValue, NoValue, NoValue, AbsentText)

\* FastAPI builds the SensorReading from the body (422 when it is invalid), the
\* endpoint stores it
PostReadings(table, id, req, disk_ok) ==
    IF req.timestamp.form = "garbage" THEN Handled("rejected", TRUE, table)
    ELSE LET text == IF req.timestamp.form = "absent"
                     THEN isoformat_tz(DateTime(DbNow, 0))
                     ELSE req.timestamp
             c == SensorReading(req.sensor_id, req.temperature, req.humidity,
                                req.battery_level, fromisoformat_tz(text))
             result == store_reading(table, id, c.reading, disk_ok)
         IN  IF ~c.ok THEN Handled("rejected", TRUE, table)
             ELSE IF result.status = "success"
             THEN Handled("stored", FALSE, result.table)
             ELSE Handled("store_error", FALSE, table)

(***************************************************************************)
(* database service: the two queries                                       *)
(***************************************************************************)

RECURSIVE Perms(_)
\* the sequences that list each element of S once
Perms(S) ==
    IF S = {} THEN {<<>>}
    ELSE UNION {{<<x>> \o p : p \in Perms(S \ {x})} : x \in S}

\* ORDER BY timestamp DESC / ASC: by the stored text
OrderedDesc(seq) ==
    \A i \in 1..(Len(seq) - 1) : TextLeq(seq[i + 1].timestamp, seq[i].timestamp)
OrderedAsc(seq) ==
    \A i \in 1..(Len(seq) - 1) : TextLeq(seq[i].timestamp, seq[i + 1].timestamp)

\* the dict built from a row of the recent query
RecentEntry(row) ==
    [timestamp |-> row.timestamp, sensor_id |-> row.sensor_id,
     temperature |-> row.temperature, humidity |-> row.humidity,
     battery_level |-> row.battery_level]

\* DatabaseService.get_recent_readings: WHERE timestamp >= ? [AND sensor_id = ?]
\* with cutoff_time.isoformat() (`if sensor_id:` is false for None), and the
\* lists it may return (rows of equal text come in an order SQL leaves open)
get_recent_readings(table, minutes, sensor_id, t) ==
    LET cutoff_time == DateTime(t - minutes, 0)
        found == {r \in table :
                    /\ TextLeq(isoformat_tz(cutoff_time), r.timestamp)
                    /\ sensor_id # Absent => r.sensor_id = sensor_id}
    IN  {[i \in 1..Len(p) |-> RecentEntry(p[i])] :
            p \in {q \in Perms(found) : OrderedDesc(q)}}

\* the dict built from a row of the period query
PeriodEntry(row) ==
    [timestamp |-> row.timestamp, temperature |-> row.temperature,
     humidity |-> row.humidity, battery_level |-> row.battery_level]

\* WHERE timestamp BETWEEN ? AND ?
InPeriod(row, start_time, end_time) ==
    /\ TextLeq(isoformat_tz(start_time), row.timestamp)
    /\ TextLeq(row.timestamp, isoformat_tz(end_time))

\* DatabaseService.get_readings_for_period; sensors_to_query is the given
\* list, or the sensors with a row in the range
get_readings_for_period(table, start_time, end_time, sensor_ids) ==
    LET sensors_to_query ==
            IF sensor_ids # {} THEN sensor_ids
            ELSE {r.sensor_id : r \in {x \in table : InPeriod(x, start_time, end_time)}}
    IN  [s \in sensors_to_query |->
            LET found == {r \in table :
                            InPeriod(r, start_time, end_time) /\ r.sensor_id = s}
                p == CHOOSE q \in Perms(found) : OrderedAsc(q)
            IN  [i \in 1..Len(p) |-> PeriodEntry(p[i])]]

(***************************************************************************)
(* hubitat service: devices and publish_sensor_readings                    *)
(***************************************************************************)

\* the value of a device attribute in the hub's JSON: the key is missing
\* ("none"), a number ("num"), a string that reads as the number v ("str"), or
\* a string that reads as no number ("bad")
Attr(kind, v) == [kind |-> kind, v |-> v]

\* a device of GET /all; sensor: it lists TemperatureMeasurement or
\* RelativeHumidityMeasurement; label, type, id are Absent when the key is missing
Device(sensor, label, type, id, temperature, humidity, battery) ==
    [sensor |-> sensor, label |-> label, type |-> type, id |-> id,
     temperature |-> temperature, humidity |-> humidity, battery |-> battery]

\* the truth value of x in `float(x) if x else None`: None and 0 are false,
\* a non-empty string is true
Truthy(x) == x.kind \in {"str", "bad"} \/ (x.kind = "num" /\ x.v # 0)

\* float(x) if x else None, int(x) if x else None: the number, None, or a
\* ValueError (ok = FALSE)
Convert(x) ==
    IF ~Truthy(x) THEN [ok |-> TRUE, v |-> NoValue]
    ELSE IF x.kind = "bad" THEN [ok |-> FALSE, v |-> NoValue]
    ELSE [ok |-> TRUE, v |-> x.v]

\* the for loop of publish_sensor_readings from device i on, inside the one
\* try block of the function: a failed conversion continues with the next
\* device; a missing key (KeyError) or a failed publish leaves the loop for the
\* except clause of line 385, which logs
RECURSIVE PublishFrom(_, _, _, _)
PublishFrom(devices, i, bus_ok, published) ==
    IF i > Len(devices) THEN [published |-> published, raised |-> FALSE]
    ELSE LET device == devices[i]
             temperature == Convert(device.temperature)
             humidity == Convert(device.humidity)
             battery == Convert(device.battery)
         IN  IF ~device.sensor
             THEN PublishFrom(devices, i + 1, bus_ok, published)
             ELSE IF ~(temperature.ok /\ humidity.ok /\ battery.ok)
             THEN PublishFrom(devices, i + 1, bus_ok, published)
             ELSE IF Absent \in {device.label, device.type, device.id} \/ ~bus_ok
             THEN [published |-> published, raised |-> TRUE]
             ELSE PublishFrom(devices, i + 1, bus_ok,
                      Append(published,
                             [channel |-> "sensor-data", status |-> "success",
                              device_id |-> <<"hubitat", device.label>>,
                              device_name |-> device.label,
                              device_type |-> device.type,
                              temperature |-> temperature.v,
                              humidity |-> humidity.v,
                              battery_level |-> battery.v,
                              raw_device_id |-> device.id]))

publish_sensor_readings(devices, bus_ok) == PublishFrom(devices, 1, bus_ok, <<>>)

\* mutant: the exception of an iteration leaves the loop
AfterIterationUncaught(failed) == IF failed THEN "ended" ELSE "sleep"

\* where a background loop is after an iteration: in the sleep that follows
\* the try body, or in the sleep of the except clause
AfterIteration(failed) == IF failed THEN "sleep_error" ELSE "sleep"

(***************************************************************************)
(* State                                                                   *)
(***************************************************************************)

VARIABLES
    \* SpecProbe: one call of check_service_health
    p_pc, p_service, p_reply, p_now, p_result,
    \* SpecReduce: the reducer loop over a list of statuses, with both tables
    r_pc, r_statuses, r_i, r_overall, r_overall_simple, r_summary,
    \* the wall clock, in seconds
    now,
    \* HealthDashboard: the cache slot
    health_cache, last_update,
    \* SpecCycle: one call of get_system_health; the tasks that returned, in
    \* completion order, and what the call returned
    c_pc, c_done, c_return,
    \* Spec, the dashboard process:
    s_pc,        \* lifespan: "startup" until the startup block has run
    redis_up,    \* whether the bus answers (ping, publish)
    m_pc,        \* health_monitor: "none" (no task), "top", "refresh", "sleep"
                 \* (SpecLoops: "sleep_error" for the sleep of the except clause)
    m_wake,      \* when the monitor's sleep ends
    m_cycle,     \* the cycle the monitor is waiting for
    h_pc,        \* per request handler: "idle", or the endpoint it refreshes for
    h_cycle,     \* per request handler: the cycle it is waiting for
    cycles,      \* number of probe cycles launched so far
    cache_cycle, \* the cycle each part of the cache slot was written by
    bus,         \* the messages published, in order
    event,       \* the step taken last
    \* SpecStore and SpecQuery, the database process:
    db_pc,       \* lifespan: "startup", then "serving" or "failed"
    sub_pc,      \* redis_subscriber: "none" (no thread), "listening", "ended"
    sub_logged_error, \* whether the subscriber has logged an error
    rows,        \* the table sensor_readings
    next_id,     \* the id AUTOINCREMENT gives to the next row
    db_event,    \* the step the database process took last
    db_out,      \* the query answered last, and its answer
    \* SpecHealth, the /health endpoints of the four services:
    hc_calls,    \* number of calls so far
    hc_pending,  \* the background tasks added and not yet run
    health_updates, \* the messages published on health-updates, in order
    hc_event,    \* the call answered last
    \* SpecLoops, the hubitat process:
    k_pc,        \* sensor_data_collector: "none" (no task), "top", "request",
                 \* "sleep", "sleep_error"
    k_event      \* the collector's last iteration

probeVars == <<p_pc, p_service, p_reply, p_now, p_result>>
reduceVars == <<r_pc, r_statuses, r_i, r_overall, r_overall_simple, r_summary>>
objVars == <<now, health_cache, last_update>>
cycleVars == <<c_pc, c_done, c_return>>
dashVars == <<s_pc, redis_up, m_pc, m_wake, m_cycle, h_pc, h_cycle, cycles, cache_cycle,
              bus, event>>
dbVars == <<db_pc, sub_pc, sub_logged_error, rows, next_id, db_event, db_out>>
hcVars == <<hc_calls, hc_pending, health_updates, hc_event>>
hubVars == <<k_pc, k_event>>
svcVars == <<dbVars, hcVars, hubVars>>
vars == <<probeVars, reduceVars, objVars, cycleVars, dashVars, svcVars>>

NoResult == Raised("none", "")

ProbeIdle ==
    /\ p_pc = "idle"
    /\ p_service = ServiceNames[1]
    /\ p_reply = TimeoutReply
    /\ p_now = 0
    /\ p_result = NoResult

ReduceIdle ==
    /\ r_pc = "idle"
    /\ r_statuses = <<>>
    /\ r_i = 1
    /\ r_overall = "healthy"
    /\ r_overall_simple = "healthy"
    /\ r_summary = [Summary(<<>>) EXCEPT !.total_services = -1]

\* HealthDashboard.__init__
ObjInit ==
    /\ now = 0
    /\ health_cache = <<>>
    /\ last_update = NoTime

CycleIdle ==
    /\ c_pc = "idle"
    /\ c_done = <<>>
    /\ c_return = <<>>

\* longest number of request handlers in flight at once
MaxHandlers == 2

Handlers == 1..MaxHandlers

Event(op, h, use_cache) == [op |-> op, h |-> h, use_cache |-> use_cache]

\* a step that is neither a request nor the return of get_system_health
OtherEvent == Event("other", 0, FALSE)

NoCycle == 0

\* which cycle wrote the entry's parts and the slot's last_update
WrittenBy(c) ==
    [services |-> c, overall_status |-> c, summary |-> c, entry_last_update |-> c,
     last_update |-> c]

DashIdle ==
    /\ s_pc = "startup"
    /\ redis_up = TRUE
    /\ m_pc = "none"
    /\ m_wake = 0
    /\ m_cycle = NoCycle
    /\ h_pc = [h \in Handlers |-> "idle"]
    /\ h_cycle = [h \in Handlers |-> NoCycle]
    /\ cycles = 0
    /\ cache_cycle = WrittenBy(NoCycle)
    /\ bus = <<>>
    /\ event = OtherEvent

DbEvent(op, msg, req, disk_ok, outcome) ==
    [op |-> op, msg |-> msg, req |-> req, disk_ok |-> disk_ok, outcome |-> outcome]

\* a query and its answer: the list of get_recent_readings, the dict of
\* get_readings_for_period
Output(minutes, sensor_id, start_time, end_time, sensor_ids, recent, period) ==
    [minutes |-> minutes, sensor_id |-> sensor_id, start_time |-> start_time,
     end_time |-> end_time, sensor_ids |-> sensor_ids, recent |-> recent,
     period |-> period]

\* a call of GET /health: the service, whether the bus answered the ping, the
\* status returned
HealthEvent(service, ping_ok, status) ==
    [service |-> service, ping_ok |-> ping_ok, status |-> status]

\* the last return of get_all_devices in the collector and what
\* publish_sensor_readings did with the devices
HubEvent(hub_ok, bus_ok, devices, published, raised) ==
    [hub_ok |-> hub_ok, bus_ok |-> bus_ok, devices |-> devices,
     published |-> published, raised |-> raised]

\* the service processes before startup, no call made
SvcIdle ==
    /\ db_pc = "startup"
    /\ sub_pc = "none"
    /\ sub_logged_error = FALSE
    /\ rows = {}
    /\ next_id = 1
    /\ db_event = DbEvent("none", NoMessage, NoRequest, TRUE, "")
    /\ db_out = Output(0, Absent, DateTime(0, 0), DateTime(0, 0), {}, <<>>, <<>>)
    /\ hc_calls = 0
    /\ hc_pending = <<>>
    /\ health_updates = <<>>
    /\ hc_event = HealthEvent("", FALSE, "")
    /\ k_pc = "none"
    /\ k_event = HubEvent(TRUE, TRUE, <<>>, <<>>, FALSE)

(***************************************************************************)
(* SpecProbe                                                               *)
(***************************************************************************)

InitProbe ==
    /\ p_pc = "call"
    /\ p_service \in ServiceSet
    /\ p_reply \in Replies
    /\ p_now \in ProbeInstants
    /\ p_result = NoResult
    /\ ReduceIdle /\ ObjInit /\ CycleIdle /\ DashIdle /\ SvcIdle

ProbeCall ==
    /\ p_pc = "call"
    /\ p_result' = check_service_health(p_service, p_reply, p_now)
    /\ p_pc' = "done"
    /\ UNCHANGED <<p_service, p_reply, p_now, reduceVars, objVars, cycleVars, dashVars,
                   svcVars>>

NextProbe == ProbeCall

SpecProbe == InitProbe /\ [][NextProbe]_vars

(***************************************************************************)
(* SpecReduce                                                              *)
(***************************************************************************)

\* longest list of statuses the reducer is run on
MaxLen == 3

ReduceStatuses ==
    {"healthy", "degraded", "unhealthy", "offline", "timeout", "error", "unknown",
     "responding"}

StatusLists == UNION {[1..n -> ReduceStatuses] : n \in 0..MaxLen}

InitReduce ==
    /\ r_pc = "loop"
    /\ r_statuses \in StatusLists
    /\ r_i = 1
    /\ r_overall = "healthy"
    /\ r_overall_simple = "healthy"
    /\ r_summary = [Summary(<<>>) EXCEPT !.total_services = -1]
    /\ ProbeIdle /\ ObjInit /\ CycleIdle /\ DashIdle /\ SvcIdle

\* one iteration of the for loop, in main.py and in main_simple.py
ReduceLoopStep ==
    /\ r_pc = "loop"
    /\ r_i <= Len(r_statuses)
    /\ r_overall' = ReduceStep(status_priority, r_overall, r_statuses[r_i])
    /\ r_overall_simple' =
            ReduceStep(status_priority_simple, r_overall_simple, r_statuses[r_i])
    /\ r_i' = r_i + 1
    /\ UNCHANGED <<r_pc, r_statuses, r_summary, probeVars, objVars, cycleVars,
                   dashVars, svcVars>>

\* the loop is exhausted; lines 119-135 compute the summary of the outcomes
\* (the outcomes of the reducer's input carry no latency)
ReduceLoopEnd ==
    /\ r_pc = "loop"
    /\ r_i > Len(r_statuses)
    /\ r_pc' = "done"
    /\ r_summary' =
          Summary([i \in 1..Len(r_statuses) |->
                      ServiceHealth("service", r_statuses[i], 0, {}, NoLatency)])
    /\ UNCHANGED <<r_statuses, r_i, r_overall, r_overall_simple, probeVars, objVars,
                   cycleVars, dashVars, svcVars>>

NextReduce == ReduceLoopStep \/ ReduceLoopEnd

SpecReduce == InitReduce /\ [][NextReduce]_vars

(***************************************************************************)
(* Claims about the reducer                                                *)
(***************************************************************************)

Priority(table, status) == DictGet(table, status, 0)

LowestPresent(table, statuses, overall) ==
    /\ \E i \in 1..Len(statuses) : statuses[i] = overall
    /\ \A i \in 1..Len(statuses) : Priority(table, overall) <= Priority(table, statuses[i])

\* C1: for every list of probe outcomes, statuses outside the priority table
\* included (priority 0), the overall status is the status of an outcome of the
\* lowest priority present in the list, in the full and in the simple aggregator.
C1_OverallIsLowestPresent ==
    (r_pc = "done" /\ Len(r_statuses) > 0) =>
        /\ LowestPresent(status_priority, r_statuses, r_overall)
        /\ LowestPresent(status_priority_simple, r_statuses, r_overall_simple)

FirstDown(statuses) ==
    CHOOSE i \in 1..Len(statuses) :
        /\ statuses[i] \in DownStatuses
        /\ \A j \in 1..(i - 1) : statuses[j] \notin DownStatuses

\* C2: for every non-empty list whose statuses are all in the priority table of
\* main.py: all healthy gives healthy, and if any status is offline, timeout or
\* error the overall status is that of the first such outcome in list order.
C2_HealthyOrFirstDown ==
    (/\ r_pc = "done"
     /\ Len(r_statuses) > 0
     /\ \A i \in 1..Len(r_statuses) : r_statuses[i] \in DOMAIN status_priority) =>
        /\ (\A i \in 1..Len(r_statuses) : r_statuses[i] = "healthy")
                => r_overall = "healthy"
        /\ (\E i \in 1..Len(r_statuses) : r_statuses[i] \in DownStatuses)
                => r_overall = r_statuses[FirstDown(r_statuses)]

\* witness of C2: a finished run over a list with two different down statuses,
\* the later one not taken
C2_Witness ==
    /\ r_pc = "done"
    /\ r_statuses = <<"degraded", "timeout", "error">>
    /\ r_overall = "timeout"

(***************************************************************************)
(* Claims about the probe                                                  *)
(***************************************************************************)

ProbeDone == p_pc = "done"

\* C7: check_service_health never raises: whatever the probed service does, it
\* returns a ServiceHealth value for the probed service.
C7_ProbeNeverRaises ==
    ProbeDone =>
        /\ p_result.exc = "none"
        /\ p_result.health.service = p_service

\* witness of C7: failures inside the try block came back as values
C7_Witness ==
    /\ ProbeDone
    /\ p_reply.kind = "response" /\ p_reply.code = 200 /\ p_reply.body.json = "invalid"
    /\ p_result.exc = "none"
    /\ p_result.health.status = "offline"

Is2xx(code) == code >= 200 /\ code <= 299

\* a body that parses as a JSON object whose fields are absent or well-formed
WellFormed(body) ==
    /\ body.json = "object"
    /\ body.timestamp.form # "garbage"
    /\ body.details.form # "nonmap"

ReportedStatus(body) == IF body.status = Absent THEN "unknown" ELSE body.status

IsHttpError(h, code) ==
    /\ h.status = "error"
    /\ <<"error", "HTTP " \o ToString(code)>> \in h.details

\* C8: the reply is classified by HTTP status class: a 2xx response with a
\* parseable body yields the body's status ("unknown" when absent) with the
\* measured latency, and exactly the non-2xx responses yield "error" with the
\* HTTP status code in the detail and the measured latency.
C8_ClassifiedByStatusClass ==
    (ProbeDone /\ p_reply.kind = "response" /\ WellFormed(p_reply.body)) =>
        LET h == p_result.health
        IN  /\ p_result.exc = "none"
            /\ h.response_time_ms = p_reply.latency
            /\ Is2xx(p_reply.code) => h.status = ReportedStatus(p_reply.body)
            /\ ~Is2xx(p_reply.code) <=> IsHttpError(h, p_reply.code)

(***************************************************************************)
(* SpecCycle: one call of HealthDashboard.get_system_health                *)
(***************************************************************************)

HealthyBody(status) ==
    [json |-> "object", status |-> status, timestamp |-> IsoString(1),
     details |-> DetailsMap({<<"redis", "connected">>})]

\* what each service may answer during a cycle
CycleReplies ==
    {Response(200, HealthyBody("healthy"), 12),
     Response(200, HealthyBody("degraded"), 250),
     Response(200, HealthyBody("responding"), 12),
     Response(500, NoBody, 250),
     TimeoutReply,
     ConnFail("Connection refused")}

InitCycle ==
    /\ c_pc = "call"
    /\ c_done = <<>>
    /\ c_return = <<>>
    /\ ObjInit /\ ProbeIdle /\ ReduceIdle /\ DashIdle /\ SvcIdle

TasksDone == {c_done[k].task : k \in 1..Len(c_done)}

\* lines 98-107: the session is opened and one task per service is created,
\* in the order of self.services; the call is suspended in gather
CycleLaunch ==
    /\ c_pc = "call"
    /\ c_pc' = "gather"
    /\ UNCHANGED <<c_done, c_return, objVars, probeVars, reduceVars, dashVars,
                   svcVars>>

\* the probe of service i returns
CycleProbeReturn(i, reply) ==
    /\ c_pc = "gather"
    /\ i \notin TasksDone
    /\ c_done' = Append(c_done,
                        [task |-> i, reply |-> reply,
                         result |-> check_service_health(ServiceNames[i], reply, now)])
    /\ UNCHANGED <<c_pc, c_return, objVars, probeVars, reduceVars, dashVars,
                   svcVars>>

\* mutant: the entry is updated field by field and the call is suspended after
\* the first field; the old entry keeps its overall status and summary
WriteCacheTorn(service_healths, cycle) ==
    /\ health_cache' =
            IF Len(health_cache) > 0
            THEN <<[health_cache[1] EXCEPT !.services = service_healths]>>
            ELSE <<CacheEntry(service_healths, now)>>
    /\ last_update' = now
    /\ cache_cycle' =
            IF Len(health_cache) > 0
            THEN [cache_cycle EXCEPT !.services = cycle, !.last_update = cycle]
            ELSE WrittenBy(cycle)

\* lines 137-144: both assignments, with no suspension point between them;
\* cache_cycle records that `cycle` wrote them
WriteCache(service_healths, cycle) ==
    /\ health_cache' = <<CacheEntry(service_healths, now)>>
    /\ last_update' = now
    /\ cache_cycle' = WrittenBy(cycle)

\* mutant: the call goes on as soon as one probe has returned
\* (asyncio.wait with FIRST_COMPLETED) and caches what it has
CycleFinishFirstCompleted ==
    /\ c_pc = "gather"
    /\ TasksDone # {}
    /\ LET service_healths == [k \in 1..Len(c_done) |-> c_done[k].result.health]
       IN  IF \E k \in 1..Len(c_done) : c_done[k].result.exc # "none"
           THEN /\ c_pc' = "raised"
                /\ UNCHANGED <<c_return, health_cache, last_update, cache_cycle>>
           ELSE /\ c_pc' = "done"
                /\ WriteCache(service_healths, 1)
                /\ c_return' = <<FreshSystemHealth(service_healths, now)>>
    /\ UNCHANGED <<c_done, now, probeVars, reduceVars, s_pc, redis_up, m_pc, m_wake,
                   m_cycle, h_pc, h_cycle, cycles, bus, event, svcVars>>

\* gather has every result: lines 109-151 run without suspension. An exception
\* of a task would leave gather and the call, before anything is cached.
CycleFinish ==
    /\ c_pc = "gather"
    /\ TasksDone = 1..NumServices
    /\ LET results == gather(c_done)
           service_healths == [i \in 1..Len(results) |-> results[i].health]
       IN  IF \E i \in 1..Len(results) : results[i].exc # "none"
           THEN /\ c_pc' = "raised"
                /\ UNCHANGED <<c_return, health_cache, last_update, cache_cycle>>
           ELSE /\ c_pc' = "done"
                /\ WriteCache(service_healths, 1)
                /\ c_return' = <<FreshSystemHealth(service_healths, now)>>
    /\ UNCHANGED <<c_done, now, probeVars, reduceVars, s_pc, redis_up, m_pc, m_wake,
                   m_cycle, h_pc, h_cycle, cycles, bus, event, svcVars>>

NextCycle ==
    \/ CycleLaunch
    \/ \E i \in 1..NumServices, reply \in CycleReplies : CycleProbeReturn(i, reply)
    \/ CycleFinish

SpecCycle == InitCycle /\ [][NextCycle]_vars

(***************************************************************************)
(* Claims about one refresh cycle                                          *)
(***************************************************************************)

CycleDone == c_pc = "done"

InRegistrationOrder(services) ==
    /\ Len(services) = NumServices
    /\ \A i \in 1..NumServices : services[i].service = ServiceNames[i]

\* the reply the i-th registered service gave in this cycle
ReplyOfTask(i) == c_done[ResultOfTask(c_done, i)].reply

\* C6: the services list of every aggregate and of every cache entry has exactly
\* one outcome per registered service, in registration order (hubitat, weather,
\* govee, database), each the outcome of that service's own probe, whatever the
\* probes returned and in whatever order they completed.
C6_OnePerServiceInOrder ==
    /\ Len(health_cache) > 0 => InRegistrationOrder(health_cache[1].services)
    /\ CycleDone =>
        /\ InRegistrationOrder(c_return[1].services)
        /\ health_cache[1].services = c_return[1].services
        /\ \A i \in 1..NumServices :
              c_return[1].services[i] =
                  check_service_health(ServiceNames[i], ReplyOfTask(i), now).health

\* witness of C6: the last registered service answered first, the first one
\* last, with different results
C6_Witness ==
    /\ CycleDone
    /\ c_done[1].task = NumServices
    /\ c_done[NumServices].task = 1
    /\ c_done[1].reply.kind = "connfail"
    /\ c_done[NumServices].reply.kind = "response"
    /\ c_return[1].services[1].status = "healthy"
    /\ c_return[1].services[NumServices].status = "offline"

\* the latencies a cycle has measured, from what the services did: the round
\* trip of a response, the ceiling for a timeout, nothing for a failed connection
MeasuredTasks == {i \in 1..NumServices : ReplyOfTask(i).kind # "connfail"}

MeasuredMs(i) ==
    IF ReplyOfTask(i).kind = "timeout" THEN TimeoutMs ELSE ReplyOfTask(i).latency

RECURSIVE SetSum(_)
SetSum(S) ==
    IF S = {} THEN 0
    ELSE LET i == CHOOSE x \in S : TRUE IN MeasuredMs(i) + SetSum(S \ {i})

MeanIsOverMeasured ==
    c_return[1].summary.avg_response_time_ms =
        [sum |-> SetSum(MeasuredTasks), len |-> Cardinality(MeasuredTasks)]

\* C9: a probe whose request exceeds the 10 s timeout yields status "timeout",
\* latency exactly 10000 ms and a detail with error "Request timeout", and the
\* 10000 ms count in the cycle's mean latency.
C9_TimeoutOutcome ==
    /\ \A k \in 1..Len(c_done) :
          c_done[k].reply.kind = "timeout" =>
              /\ c_done[k].result.exc = "none"
              /\ c_done[k].result.health.status = "timeout"
              /\ c_done[k].result.health.response_time_ms = 10000
              /\ <<"error", "Request timeout">> \in c_done[k].result.health.details
    /\ CycleDone => MeanIsOverMeasured

\* witness of C9: a finished cycle in which only timeouts were measured
C9_Witness ==
    /\ CycleDone
    /\ \E i \in 1..NumServices : ReplyOfTask(i).kind = "timeout"
    /\ \A i \in 1..NumServices : ReplyOfTask(i).kind \in {"timeout", "connfail"}
    /\ c_return[1].summary.avg_response_time_ms.len > 0
    /\ c_return[1].summary.avg_response_time_ms.sum =
            10000 * c_return[1].summary.avg_response_time_ms.len

\* C10: a probe that fails without a reply and not by timeout yields status
\* "offline" with absent latency, and the outcome is left out of the cycle's
\* mean latency (which is absent when nothing was measured).
C10_OfflineOutcome ==
    /\ \A k \in 1..Len(c_done) :
          c_done[k].reply.kind = "connfail" =>
              /\ c_done[k].result.exc = "none"
              /\ c_done[k].result.health.status = "offline"
              /\ c_done[k].result.health.response_time_ms = NoLatency
              /\ <<"error", c_done[k].reply.err>> \in c_done[k].result.health.details
    /\ CycleDone =>
          /\ MeanIsOverMeasured
          /\ MeasuredTasks = {} => c_return[1].summary.avg_response_time_ms = NoMean

\* witness of C10: one service refused the connection, three were measured
C10_Witness ==
    /\ CycleDone
    /\ Cardinality(MeasuredTasks) = NumServices - 1
    /\ \E i \in 1..NumServices : c_return[1].services[i].status = "offline"
    /\ c_return[1].summary.avg_response_time_ms.len = NumServices - 1

(***************************************************************************)
(* Spec: the dashboard process                                             *)
(***************************************************************************)

\* the clock is followed up to this instant, in seconds
MaxTime == 60

\* the clock advances by one of these amounts
TickSteps == {29, 30}

\* number of probe cycles that are followed
MaxCycles == 2

\* "Return cache if less than 30 seconds old"
CacheTtl == 30

\* asyncio.sleep(60) of health_monitor
MonitorInterval == 60

\* what the four services answer to the probes of one cycle of the running
\* dashboard: all healthy; the database down and govee slow; nothing reachable
AllHealthy == [i \in 1..NumServices |-> Response(200, HealthyBody("healthy"), 12)]

SysReplies ==
    {AllHealthy,
     [AllHealthy EXCEPT ![3] = TimeoutReply, ![4] = ConnFail("Connection refused")],
     [i \in 1..NumServices |-> ConnFail("Connection refused")]}

\* mutant: the age of the entry is not looked at
get_cached_health_any_age ==
    IF last_update # NoTime /\ Len(health_cache) > 0 THEN health_cache ELSE <<>>

\* HealthDashboard.get_cached_health: the entry, or <<>> for None
get_cached_health ==
    IF last_update # NoTime /\ Len(health_cache) > 0
    THEN IF now - last_update < CacheTtl THEN health_cache ELSE <<>>
    ELSE <<>>

\* the probes of one cycle: service i did replies[i]. The outcomes carry the
\* instant the gather completed.
ProbeAll(replies) ==
    [i \in 1..NumServices |-> check_service_health(ServiceNames[i], replies[i], now)]

AnyRaised(results) == \E i \in 1..Len(results) : results[i].exc # "none"

HealthsOf(results) == [i \in 1..Len(results) |-> results[i].health]

\* the message health_monitor publishes (lines 677-684)
SystemHealthMessage(health) ==
    [topic |-> "system-health",
     overall_status |-> health.overall_status,
     summary |-> health.summary,
     services |-> health.services,
     timestamp |-> isoformat(health.timestamp)]

Init ==
    /\ ObjInit /\ DashIdle
    /\ ProbeIdle /\ ReduceIdle /\ CycleIdle /\ SvcIdle

otherVars == <<probeVars, reduceVars, cycleVars, svcVars>>

\* lifespan, startup block: the monitor task is created only after a
\* successful ping; a failed ping is swallowed and the app serves anyway
Startup ==
    /\ s_pc = "startup"
    /\ s_pc' = "serving"
    /\ m_pc' = IF redis_up THEN "top" ELSE "none"
    /\ event' = OtherEvent
    /\ UNCHANGED <<objVars, otherVars, redis_up, m_wake, m_cycle, h_pc, h_cycle,
                   cycles, cache_cycle, bus>>

\* time passes
Tick(d) ==
    /\ now + d <= MaxTime
    /\ now' = now + d
    /\ event' = OtherEvent
    /\ UNCHANGED <<health_cache, last_update, otherVars, s_pc, redis_up, m_pc, m_wake,
                   m_cycle, h_pc, h_cycle, cycles, cache_cycle, bus>>

\* the bus becomes unreachable, or reachable again
BusChange ==
    /\ redis_up' = ~redis_up
    /\ event' = OtherEvent
    /\ UNCHANGED <<objVars, otherVars, s_pc, m_pc, m_wake, m_cycle, h_pc, h_cycle,
                   cycles, cache_cycle, bus>>

\* GET /system?use_cache=...: answered from the cache slot, or the handler
\* calls get_system_health and is suspended in its gather
GetSystem(h, use_cache) ==
    /\ s_pc = "serving"
    /\ h_pc[h] = "idle"
    /\ event' = Event("GET /system", h, use_cache)
    /\ IF use_cache /\ Len(get_cached_health) > 0
       THEN UNCHANGED <<h_pc, h_cycle, cycles>>
       ELSE /\ cycles < MaxCycles
            /\ cycles' = cycles + 1
            /\ h_pc' = [h_pc EXCEPT ![h] = "system"]
            /\ h_cycle' = [h_cycle EXCEPT ![h] = cycles + 1]
    /\ UNCHANGED <<objVars, otherVars, s_pc, redis_up, m_pc, m_wake, m_cycle,
                   cache_cycle, bus>>

\* GET /system/summary: always calls get_system_health
GetSummary(h) ==
    /\ s_pc = "serving"
    /\ h_pc[h] = "idle"
    /\ cycles < MaxCycles
    /\ cycles' = cycles + 1
    /\ h_pc' = [h_pc EXCEPT ![h] = "summary"]
    /\ h_cycle' = [h_cycle EXCEPT ![h] = cycles + 1]
    /\ event' = Event("GET /system/summary", h, FALSE)
    /\ UNCHANGED <<objVars, otherVars, s_pc, redis_up, m_pc, m_wake, m_cycle,
                   cache_cycle, bus>>

\* the gather of handler h completes: get_system_health runs to its return and
\* the endpoint answers, all without suspension
HandlerRefreshed(h, replies) ==
    /\ h_pc[h] # "idle"
    /\ LET results == ProbeAll(replies)
       IN  IF AnyRaised(results)
           THEN UNCHANGED <<health_cache, last_update, cache_cycle>>
           ELSE WriteCache(HealthsOf(results), h_cycle[h])
    /\ h_pc' = [h_pc EXCEPT ![h] = "idle"]
    /\ h_cycle' = [h_cycle EXCEPT ![h] = NoCycle]
    /\ event' = Event("refreshed", h, FALSE)
    /\ UNCHANGED <<now, otherVars, s_pc, redis_up, m_pc, m_wake, m_cycle, cycles, bus>>

\* health_monitor, top of the loop: dashboard and redis_client are set, the
\* monitor calls get_system_health and is suspended in its gather
MonitorTop ==
    /\ m_pc = "top"
    /\ cycles < MaxCycles
    /\ cycles' = cycles + 1
    /\ m_pc' = "refresh"
    /\ m_cycle' = cycles + 1
    /\ event' = OtherEvent
    /\ UNCHANGED <<objVars, otherVars, s_pc, redis_up, m_wake, h_pc, h_cycle,
                   cache_cycle, bus>>

\* mutant: the publish of line 684 is outside the try block, its exception
\* ends the monitor task
MonitorRefreshedUncaught(replies) ==
    /\ m_pc = "refresh"
    /\ LET results == ProbeAll(replies)
           health == FreshSystemHealth(HealthsOf(results), now)
       IN  IF AnyRaised(results)
           THEN UNCHANGED <<health_cache, last_update, cache_cycle, bus>>
           ELSE /\ WriteCache(HealthsOf(results), m_cycle)
                /\ bus' = IF redis_up THEN Append(bus, SystemHealthMessage(health))
                          ELSE bus
    /\ m_pc' = IF redis_up THEN "sleep" ELSE "none"
    /\ m_wake' = IF redis_up THEN now + MonitorInterval ELSE m_wake
    /\ m_cycle' = NoCycle
    /\ event' = Event("monitor refreshed", 0, FALSE)
    /\ UNCHANGED <<now, otherVars, s_pc, redis_up, h_pc, h_cycle, cycles>>

\* the monitor's gather completes: get_system_health returns, the message is
\* published (publish raises when the bus is down; the except clause logs it),
\* and the monitor sleeps 60 s in either case
MonitorRefreshed(replies) ==
    /\ m_pc = "refresh"
    /\ LET results == ProbeAll(replies)
           health == FreshSystemHealth(HealthsOf(results), now)
       IN  IF AnyRaised(results)
           THEN UNCHANGED <<health_cache, last_update, cache_cycle, bus>>
           ELSE /\ WriteCache(HealthsOf(results), m_cycle)
                /\ bus' = IF redis_up THEN Append(bus, SystemHealthMessage(health))
                          ELSE bus
    /\ m_pc' = "sleep"
    /\ m_wake' = now + MonitorInterval
    /\ m_cycle' = NoCycle
    /\ event' = Event("monitor refreshed", 0, FALSE)
    /\ UNCHANGED <<now, otherVars, s_pc, redis_up, h_pc, h_cycle, cycles>>

\* the monitor's sleep is over
MonitorWake ==
    /\ m_pc = "sleep"
    /\ now >= m_wake
    /\ m_pc' = "top"
    /\ event' = OtherEvent
    /\ UNCHANGED <<objVars, otherVars, s_pc, redis_up, m_wake, m_cycle, h_pc, h_cycle,
                   cycles, cache_cycle, bus>>

Next ==
    \/ Startup
    \/ \E d \in TickSteps : Tick(d)
    \/ BusChange
    \/ \E h \in Handlers, use_cache \in BOOLEAN : GetSystem(h, use_cache)
    \/ \E h \in Handlers : GetSummary(h)
    \/ \E h \in Handlers, replies \in SysReplies :
            HandlerRefreshed(h, replies)
    \/ MonitorTop
    \/ \E replies \in SysReplies : MonitorRefreshed(replies)
    \/ MonitorWake

Spec == Init /\ [][Next]_vars

(***************************************************************************)
(* Claims about the dashboard process                                      *)
(***************************************************************************)

\* calls of get_system_health that are suspended in their gather
InFlight ==
    {h_cycle[h] : h \in {x \in Handlers : h_pc[x] # "idle"}}
    \cup (IF m_pc = "refresh" THEN {m_cycle} ELSE {})

\* C3: the writes of one refresh to the cache slot are not interleaved with
\* another refresh's: in every reachable state the services list, the overall
\* status, the summary and both last_update values were written by one and the
\* same cycle, and overall status and summary are those of the cached services.
C3_CacheFromOneCycle ==
    /\ \A f \in DOMAIN cache_cycle : cache_cycle[f] = cache_cycle.services
    /\ Len(health_cache) > 0 =>
        /\ cache_cycle.services # NoCycle
        /\ health_cache[1].overall_status =
              OverallStatus(status_priority, StatusesOf(health_cache[1].services))
        /\ health_cache[1].summary = Summary(health_cache[1].services)
        /\ get_cached_health \in {<<>>, health_cache}

\* witness of C3: the monitor's refresh and a request's refresh overlap; the
\* request's cycle, launched second, has written the slot while the monitor's
\* call is still suspended
C3_Witness ==
    /\ m_pc = "refresh"
    /\ m_cycle = 1
    /\ InFlight = {1}
    /\ Len(health_cache) > 0
    /\ cache_cycle.services = 2
    /\ health_cache[1].overall_status = "timeout"

CacheIsFresh ==
    /\ last_update # NoTime
    /\ Len(health_cache) > 0
    /\ now - last_update < 30

\* C4: GET /system with use_cache=true starts no probe cycle and leaves the
\* cache slot unchanged when the slot holds an entry written less than 30 s
\* ago; in every other case (no entry, entry 30 s old or older,
\* use_cache=false) it starts exactly one probe cycle.
C4_CachedGetProbesOnlyWhenStale ==
    [][event'.op = "GET /system" =>
        IF event'.use_cache /\ CacheIsFresh
        THEN /\ cycles' = cycles
             /\ h_pc' = h_pc
             /\ health_cache' = health_cache
             /\ last_update' = last_update
        ELSE /\ cycles' = cycles + 1
             /\ h_pc[event'.h] = "idle"
             /\ h_pc'[event'.h] = "system"
             /\ \A h \in Handlers \ {event'.h} : h_pc'[h] = h_pc[h]]_vars

\* witness of C4: one cycle has run, its entry is 29 s old, a cached get was
\* just answered from it (the handler is idle), and no second cycle was started
C4_Witness ==
    /\ event = Event("GET /system", 1, TRUE)
    /\ h_pc[1] = "idle"
    /\ cycles = 1
    /\ last_update # NoTime
    /\ now - last_update = 29

\* a call of get_system_health has just returned
JustRefreshed == event.op \in {"refreshed", "monitor refreshed"}

\* C5: after every completed refresh, started by the background cycle or by a
\* request, the new aggregate is on the bus on topic health-updates (the bus
\* being reachable).
C5_EveryRefreshPublished ==
    (JustRefreshed /\ redis_up) =>
        /\ Len(bus) > 0
        /\ bus[Len(bus)].topic = "health-updates"
        /\ bus[Len(bus)].services = health_cache[1].services
        /\ bus[Len(bus)].overall_status = health_cache[1].overall_status

(***************************************************************************)
(* The defaults of a 200 reply                                             *)
(***************************************************************************)

\* the instant the outcome should carry: the body's, or the current time
DefaultedTimestamp(body, t) ==
    IF body.timestamp.form = "iso" THEN body.timestamp.t ELSE t

\* the detail map the outcome should carry: the body's, or the empty map
DefaultedDetails(body) ==
    IF body.details.form = "map" THEN body.details.map ELSE {}

\* C11: for a 200 reply with a parseable JSON body whose status, timestamp or
\* details field is absent or unparseable, the outcome takes the safe default
\* for that field only ("unknown", the current time, the empty map), keeps the
\* other fields and the measured latency, and is not a failed probe.
C11_DefaultsForThatFieldOnly ==
    (/\ ProbeDone
     /\ p_reply.kind = "response" /\ p_reply.code = 200
     /\ p_reply.body.json = "object") =>
        LET h == p_result.health
        IN  /\ p_result.exc = "none"
            /\ h.status = ReportedStatus(p_reply.body)
            /\ h.timestamp = DefaultedTimestamp(p_reply.body, p_now)
            /\ h.details = DefaultedDetails(p_reply.body)
            /\ h.response_time_ms = p_reply.latency

(***************************************************************************)
(* SpecStore: the database process, its subscriber and POST /readings      *)
(***************************************************************************)

\* largest number of rows written in a run
MaxRows == 2

\* a payload every check passes, and payloads that differ from it in one field
BasePayload == Payload("success", "s1", 72, 45, 85, TimestampText(DbNow - 10, 0))

StorePayloads ==
    {BasePayload}
    \cup {[BasePayload EXCEPT !.status = s] : s \in {"error", Absent}}
    \cup {[BasePayload EXCEPT !.id = Absent]}
    \cup {[BasePayload EXCEPT !.temperature = v] :
            v \in {NoValue, TempMin - 1, TempMin, TempMax, TempMax + 1, 500}}
    \cup {[BasePayload EXCEPT !.humidity = v] :
            v \in {NoValue, HumMin - 1, HumMin, HumMax, HumMax + 1}}
    \cup {[BasePayload EXCEPT !.timestamp = s] :
            s \in {GarbageText, AbsentText, TimestampText(DbNow - 5, 0)}}
    \cup {[BasePayload EXCEPT !.battery_level = NoValue]}

\* the messages the bus delivers to the subscriber
StoreMessages ==
    {Message("message", "sensor-data", "object", TRUE, p) : p \in StorePayloads}
    \cup {Message("message", "weather-data", "object", TRUE, p) :
            p \in {BasePayload, [BasePayload EXCEPT !.status = "error"],
                   [BasePayload EXCEPT !.id = Absent],
                   [BasePayload EXCEPT !.temperature = 500]}}
    \cup {Message("message", "sensor-data", j, FALSE, EmptyPayload) :
            j \in {"invalid", "list", "object"}}
    \cup {Message("subscribe", "sensor-data", "invalid", FALSE, EmptyPayload)}

BaseRequest == Request("s1", 72, 45, 85, BasePayload.timestamp)

\* the bodies sent to POST /readings
StoreRequests ==
    {BaseRequest, [BaseRequest EXCEPT !.sensor_id = Absent],
     [BaseRequest EXCEPT !.temperature = 500],
     [BaseRequest EXCEPT !.temperature = TempMax],
     [BaseRequest EXCEPT !.humidity = HumMax + 1],
     [BaseRequest EXCEPT !.timestamp = GarbageText],
     [BaseRequest EXCEPT !.timestamp = AbsentText]}

\* every service process before startup
InitServices ==
    /\ SvcIdle
    /\ ProbeIdle /\ ReduceIdle /\ ObjInit /\ CycleIdle /\ DashIdle

dashboardVars == <<probeVars, reduceVars, objVars, cycleVars, dashVars>>

\* lifespan: ping, then threading.Thread(target=redis_subscriber).start();
\* a failure is raised and the process does not serve
DbStartup(bus_ok) ==
    /\ db_pc = "startup"
    /\ db_pc' = IF bus_ok THEN "serving" ELSE "failed"
    /\ sub_pc' = IF bus_ok THEN "listening" ELSE "none"
    /\ db_event' = DbEvent("startup", NoMessage, NoRequest, TRUE, "")
    /\ UNCHANGED <<sub_logged_error, rows, next_id, db_out, dashboardVars, hcVars,
                   hubVars>>

\* one iteration of `for message in pubsub.listen()`
SubscriberMessage(msg, disk_ok) ==
    /\ db_pc = "serving" /\ sub_pc = "listening"
    /\ next_id <= MaxRows
    /\ LET r == TryMessage(rows, next_id, msg, disk_ok)
       IN  /\ rows' = r.table
           /\ next_id' = IF r.outcome = "stored" THEN next_id + 1 ELSE next_id
           /\ sub_pc' = LoopAfter(r)
           /\ sub_logged_error' =
                (sub_logged_error \/ r.raised \/ r.outcome = "store_error")
           /\ db_event' = DbEvent("message", msg, NoRequest, disk_ok, r.outcome)
    /\ UNCHANGED <<db_pc, db_out, dashboardVars, hcVars,
                   hubVars>>

\* pubsub.listen() (or subscribe) raises: the outer except logs and
\* redis_subscriber returns
SubscriberBusError ==
    /\ db_pc = "serving" /\ sub_pc = "listening"
    /\ sub_pc' = "ended"
    /\ sub_logged_error' = TRUE
    /\ db_event' = DbEvent("bus_error", NoMessage, NoRequest, TRUE, "")
    /\ UNCHANGED <<db_pc, rows, next_id, db_out, dashboardVars, hcVars,
                   hubVars>>

\* a message is published while no subscriber thread is listening
PublishUnheard(msg) ==
    /\ db_pc = "serving" /\ sub_pc = "ended"
    /\ db_event' = DbEvent("unheard", msg, NoRequest, TRUE, "")
    /\ UNCHANGED <<db_pc, sub_pc, sub_logged_error, rows, next_id, db_out, dashboardVars, hcVars,
                   hubVars>>

\* POST /readings
PostReading(req, disk_ok) ==
    /\ db_pc = "serving"
    /\ next_id <= MaxRows
    /\ LET r == PostReadings(rows, next_id, req, disk_ok)
       IN  /\ rows' = r.table
           /\ next_id' = IF r.outcome = "stored" THEN next_id + 1 ELSE next_id
           /\ db_event' = DbEvent("post", NoMessage, req, disk_ok, r.outcome)
    /\ UNCHANGED <<db_pc, sub_pc, sub_logged_error, db_out, dashboardVars, hcVars,
                   hubVars>>

NextStore ==
    \/ \E bus_ok \in BOOLEAN : DbStartup(bus_ok)
    \/ \E msg \in StoreMessages, disk_ok \in BOOLEAN : SubscriberMessage(msg, disk_ok)
    \/ SubscriberBusError
    \/ \E msg \in StoreMessages : PublishUnheard(msg)
    \/ \E req \in StoreRequests, disk_ok \in BOOLEAN : PostReading(req, disk_ok)

SpecStore == InitServices /\ [][NextStore]_vars

(***************************************************************************)
(* Claims about the store and the subscriber                               *)
(***************************************************************************)

InRange(lo, v, hi) == v = NoValue \/ (lo <= v /\ v <= hi)

ValuesInRange(x) ==
    /\ InRange(TempMin, x.temperature, TempMax)
    /\ InRange(HumMin, x.humidity, HumMax)

\* the message parses, has a payload and the payload a usable timestamp
ParsesAsPayload(msg) ==
    /\ msg.type = "message" /\ msg.json = "object" /\ msg.has_data
    /\ msg.payload.timestamp.form # "garbage"

\* a well-formed message that reports success and passes validation
GoodMessage(msg) ==
    /\ ParsesAsPayload(msg)
    /\ msg.payload.status = "success"
    /\ ValuesInRange(msg.payload)

\* a request body FastAPI can build a SensorReading from
ParsesAsReading(req) ==
    /\ req.sensor_id # Absent
    /\ req.timestamp.form # "garbage"

GoodRequest(req) == ParsesAsReading(req) /\ ValuesInRange(req)

TextOrNow(s) == IF s.form = "absent" THEN TimestampText(DbNow, 0) ELSE s

\* the fields of the row a message or a request is to leave in the table
ExpectedOfMessage(msg) ==
    [timestamp |-> TextOrNow(msg.payload.timestamp),
     sensor_id |-> SensorIdOf(msg.channel, msg.payload),
     temperature |-> msg.payload.temperature, humidity |-> msg.payload.humidity,
     battery_level |-> BatteryOf(msg.channel, msg.payload)]

ExpectedOfRequest(req) ==
    [timestamp |-> TextOrNow(req.timestamp), sensor_id |-> req.sensor_id,
     temperature |-> req.temperature, humidity |-> req.humidity,
     battery_level |-> req.battery_level]

Persisted(fields, table) == \E r \in table : RecentEntry(r) = fields

\* C12: a message that fails to parse, fails validation or fails to store never
\* ends the subscription loop: after every delivered message the subscriber is
\* still listening, and a well-formed success message that passes validation
\* (and whose write the disk accepts) is in the table, whatever came before it.
C12_BadMessageNeverEndsLoop ==
    db_event.op = "message" =>
        /\ sub_pc = "listening"
        /\ (GoodMessage(db_event.msg) /\ db_event.disk_ok)
                => Persisted(ExpectedOfMessage(db_event.msg), rows)

\* witness of C12: the subscriber logged a failure earlier and has now stored a
\* good message
C12_Witness ==
    /\ sub_logged_error
    /\ db_event.op = "message" /\ db_event.outcome = "stored"
    /\ GoodMessage(db_event.msg)
    /\ Persisted(ExpectedOfMessage(db_event.msg), rows)

RowsInRange == \A r \in rows : ValuesInRange(r)

\* the step handled a message or request that reaches the construction of a
\* SensorReading with a value out of range
ConstructsOutOfRange(e) ==
    \/ /\ e.op = "message" /\ ParsesAsPayload(e.msg)
       /\ e.msg.payload.status = "success" /\ ~ValuesInRange(e.msg.payload)
    \/ e.op = "post" /\ ParsesAsReading(e.req) /\ ~ValuesInRange(e.req)

\* C13: no row has a temperature outside [-100, 150] or a humidity outside
\* [0, 100], whichever path wrote it; a message or request with a value out of
\* range is rejected when the SensorReading is constructed and leaves the table
\* unchanged.
C13_OutOfRangeNeverStored ==
    /\ []RowsInRange
    /\ [][ConstructsOutOfRange(db_event')
            => (db_event'.outcome = "rejected" /\ rows' = rows)]_vars

\* witness of C13: a sensor-data message with temperature 500 was rejected
\* while the table holds a row
C13_Witness ==
    /\ db_event.op = "message" /\ db_event.msg.payload.temperature = 500
    /\ db_event.outcome = "rejected"
    /\ rows # {}

\* the payload of a parsed message does not report status "success"
NotSuccess(msg) ==
    /\ msg.type = "message" /\ msg.json = "object"
    /\ ~msg.has_data \/ msg.payload.status # "success"

\* C14: a message whose nested payload does not report status "success"
\* (absent, or any other value) leaves the table unchanged.
C14_NonSuccessLeavesStore ==
    [][(db_event'.op = "message" /\ NotSuccess(db_event'.msg)) => rows' = rows]_vars

\* witness of C14: a payload with status "error" and otherwise storable was
\* skipped while the table holds a row
C14_Witness ==
    /\ db_event.op = "message" /\ db_event.msg.payload.status = "error"
    /\ ValuesInRange(db_event.msg.payload)
    /\ db_event.outcome = "skipped"
    /\ rows # {}

OnePerKey == \A r1, r2 \in rows : Key(r1) = Key(r2) => r1 = r2

WithKey(table, k) == {r \in table : Key(r) = k}

\* the fields the write of a step carries
WrittenFields(e) ==
    IF e.op = "message" THEN ExpectedOfMessage(e.msg) ELSE ExpectedOfRequest(e.req)

\* the step stores a valid reading and the disk accepts the write
GoodWrite(e) ==
    /\ e.disk_ok
    /\ \/ e.op = "message" /\ GoodMessage(e.msg)
       \/ e.op = "post" /\ GoodRequest(e.req)

C19_SubscribedForLifetime ==
    /\ db_pc = "serving" => sub_pc = "listening"
    /\ (/\ db_event.op \in {"message", "unheard"}
        /\ GoodMessage(db_event.msg) /\ db_event.disk_ok)
            => Persisted(ExpectedOfMessage(db_event.msg), rows)

(***************************************************************************)
(* SpecQuery: readings stored through POST /readings, and the two queries  *)
(***************************************************************************)

\* readings 50 and 20 minutes old, their timestamps written in UTC, UTC-5 and
\* UTC+2
QueryRequests ==
    {Request(s, 72, 45, 85, isoformat_tz(DateTime(t, off))) :
        s \in {"s1", "s2"}, t \in {DbNow - 50, DbNow - 20}, off \in {0, -300, 120}}

\* GET /readings/recent
GetRecent(minutes, sensor_id) ==
    /\ db_pc = "serving"
    /\ \E out \in get_recent_readings(rows, minutes, sensor_id, DbNow) :
            db_out' = Output(minutes, sensor_id, DateTime(0, 0), DateTime(0, 0), {},
                             out, <<>>)
    /\ db_event' = DbEvent("recent", NoMessage, NoRequest, TRUE, "")
    /\ UNCHANGED <<db_pc, sub_pc, sub_logged_error, rows, next_id, dashboardVars, hcVars,
                   hubVars>>

\* POST /readings/query
GetPeriod(start_time, end_time, sensor_ids) ==
    /\ db_pc = "serving"
    /\ db_out' = Output(0, Absent, start_time, end_time, sensor_ids, <<>>,
                        get_readings_for_period(rows, start_time, end_time,
                                                sensor_ids))
    /\ db_event' = DbEvent("period", NoMessage, NoRequest, TRUE, "")
    /\ UNCHANGED <<db_pc, sub_pc, sub_logged_error, rows, next_id, dashboardVars, hcVars,
                   hubVars>>

NextQuery ==
    \/ \E bus_ok \in BOOLEAN : DbStartup(bus_ok)
    \/ \E req \in QueryRequests : PostReading(req, TRUE)
    \/ \E minutes \in {30, 60}, sensor_id \in {Absent, "s1"} :
            GetRecent(minutes, sensor_id)
    \/ \E sensor_ids \in {{}, {"s1"}} :
            GetPeriod(DateTime(DbNow - 60, 0), DateTime(DbNow, 0), sensor_ids)

SpecQuery == InitServices /\ [][NextQuery]_vars

(***************************************************************************)
(* Claims about the queries                                                *)
(***************************************************************************)

\* the instant the text of a timestamp denotes
InstantOf(s) == s.local - s.off

\* the instant of the row lies within the last `minutes` minutes
WithinLast(row, minutes) ==
    /\ DbNow - minutes <= InstantOf(row.timestamp)
    /\ InstantOf(row.timestamp) <= DbNow

\* C16: a valid reading stored with success whose timestamp denotes an
\* instant within the last N minutes is in the answer of
\* get_recent_readings(minutes=N), with its sensor id, temperature, humidity,
\* battery level and timestamp.
C16_StoredThenRecent ==
    db_event.op = "recent" =>
        \A r \in rows :
            (/\ WithinLast(r, db_out.minutes)
             /\ db_out.sensor_id # Absent => r.sensor_id = db_out.sensor_id)
                => \E i \in 1..Len(db_out.recent) : db_out.recent[i] = RecentEntry(r)

NewestFirst(seq) ==
    \A i \in 1..(Len(seq) - 1) :
        InstantOf(seq[i].timestamp) >= InstantOf(seq[i + 1].timestamp)

OldestFirst(seq) ==
    \A i \in 1..(Len(seq) - 1) :
        InstantOf(seq[i].timestamp) <= InstantOf(seq[i + 1].timestamp)

\* C17: get_recent_readings lists its readings newest-first by the instant
\* their timestamps denote, and get_readings_for_period lists, for each sensor,
\* its readings oldest-first by that instant.
C17_OrderedByInstant ==
    /\ db_event.op = "recent" => NewestFirst(db_out.recent)
    /\ db_event.op = "period" =>
            \A s \in DOMAIN db_out.period : OldestFirst(db_out.period[s])

(***************************************************************************)
(* Claims about the background loops                                       *)
(***************************************************************************)

\* C18: once the dashboard has completed startup and serves requests, the
\* background refresh loop has been started, whether or not the bus was
\* reachable at startup, and it refreshes once per 60-second interval: a
\* sleeping monitor wakes at most 60 s from now.
C18_RefreshLoopStarted ==
    s_pc = "serving" =>
        /\ m_pc # "none"
        /\ m_pc = "sleep" => m_wake <= now + MonitorInterval

(***************************************************************************)
(* SpecHealth: GET /health of hubitat, weather, govee and database         *)
(***************************************************************************)

\* largest number of calls in a run
MaxCalls == 2

\* the try block of the four health_check endpoints: ping_ok is FALSE when
\* redis.ping() raises; first_ok tells whether the service's own check finds
\* its upstream (hub, weather API, Govee device, SQLite file) in order;
\* second_ok whether hubitat's second request, get_all_devices, succeeds.
\* The status returned, and whether the publish task was added
health_check(service, ping_ok, first_ok, second_ok) ==
    IF ~ping_ok \/ (service = "hubitat" /\ ~second_ok)
    THEN [status |-> "unhealthy", publish |-> FALSE]
    ELSE [status |-> IF first_ok THEN "healthy" ELSE "degraded", publish |-> TRUE]

\* the message of publish_health_status
HealthUpdate(service, status) == [service |-> service, status |-> status]

\* an external GET /health on one service
HealthCall(service, ping_ok, first_ok, second_ok) ==
    /\ hc_calls < MaxCalls
    /\ hc_calls' = hc_calls + 1
    /\ LET r == health_check(service, ping_ok, first_ok, second_ok)
       IN  /\ hc_pending' = IF r.publish
                            THEN Append(hc_pending, HealthUpdate(service, r.status))
                            ELSE hc_pending
           /\ hc_event' = HealthEvent(service, ping_ok, r.status)
    /\ UNCHANGED <<health_updates, dashboardVars, dbVars, hubVars>>

\* the background task runs after the response: publish_health_status, whose
\* except clause logs a failed publish
BackgroundPublish(publish_ok) ==
    /\ hc_pending # <<>>
    /\ hc_pending' = Tail(hc_pending)
    /\ health_updates' = IF publish_ok THEN Append(health_updates, Head(hc_pending))
                         ELSE health_updates
    /\ UNCHANGED <<hc_calls, hc_event, dashboardVars, dbVars, hubVars>>

NextHealth ==
    \/ \E service \in ServiceSet, ping_ok, first_ok, second_ok \in BOOLEAN :
            HealthCall(service, ping_ok, first_ok, second_ok)
    \/ \E publish_ok \in BOOLEAN : BackgroundPublish(publish_ok)

SpecHealth == InitServices /\ [][NextHealth]_vars

\* C20: every external call of a service's /health endpoint leads to one
\* publication of that service's health on health-updates, whichever status it
\* returns: a call answered while the bus answers the ping adds one publication
\* of the service with the status returned.
C20_EveryCallPublishes ==
    [][(hc_calls' = hc_calls + 1 /\ hc_event'.ping_ok) =>
        hc_pending' = Append(hc_pending,
                             HealthUpdate(hc_event'.service, hc_event'.status))]_vars


(***************************************************************************)
(* Claims on the aggregate when services are down or absent                *)
(***************************************************************************)

\* every probe of the cycle has returned, and each was refused the connection
AllDown ==
    /\ Len(c_done) = NumServices
    /\ \A i \in 1..NumServices : ReplyOfTask(i).kind = "connfail"

\* C21: when every registered service is down (every probe fails to connect),
\* the aggregate still returns a complete result and does not fault: one
\* outcome per service, each "offline", overall status "offline", healthy
\* count 0, offline count the number of services, no mean latency, uptime 0.
C21_AllDownStillComplete ==
    /\ AllDown => c_pc # "raised"
    /\ (CycleDone /\ AllDown) =>
          /\ Len(c_return) = 1
          /\ InRegistrationOrder(c_return[1].services)
          /\ \A i \in 1..NumServices : c_return[1].services[i].status = "offline"
          /\ c_return[1].overall_status = "offline"
          /\ c_return[1].summary.total_services = NumServices
          /\ c_return[1].summary.healthy_services = 0
          /\ c_return[1].summary.offline_services = NumServices
          /\ c_return[1].summary.avg_response_time_ms = NoMean
          /\ c_return[1].summary.uptime_percentage = 0

\* witness of C21: a finished cycle in which every probe was refused
C21_Witness ==
    /\ CycleDone
    /\ AllDown
    /\ Len(c_done) = NumServices
    /\ c_return[1].summary.offline_services = NumServices


(***************************************************************************)
(* Claims on publish failures                                              *)
(***************************************************************************)

\* the step in which the monitor's get_system_health returns and the
\* "system-health" message is handed to the bus
MonitorPublishes == m_pc = "refresh" /\ m_pc' # "refresh"

C23_NoServices ==
    (r_pc = "done" /\ r_statuses = <<>>) =>
        /\ r_overall = "healthy"
        /\ r_overall_simple = "healthy"
        /\ r_summary = [total_services |-> 0, healthy_services |-> 0,
                        offline_services |-> 0, avg_response_time_ms |-> NoMean,
                        uptime_percentage |-> 0]

\* witness of C23: the loop over an empty list has ended without an iteration
C23_Witness ==
    /\ r_pc = "done"
    /\ r_statuses = <<>>
    /\ r_i = 1
    /\ r_summary.total_services = 0


\* the outcomes are those of the probes of this cycle, one per service
OutcomesOfCycle(services) ==
    /\ Len(services) = NumServices
    /\ \A i \in 1..NumServices : services[i] = c_done[ResultOfTask(c_done, i)].result.health

\* C24: within one refresh cycle all probes are launched before any result is
\* awaited, and neither the cache slot nor the aggregate handed to the caller
\* (the one the monitor publishes) reflects the cycle before the probe of
\* every registered service has returned: neither ever holds outcomes for only
\* a subset of the services.
C24_NothingBeforeAllReturned ==
    /\ Len(c_done) > 0 => c_pc # "call"
    /\ Len(health_cache) > 0 =>
          /\ TasksDone = 1..NumServices
          /\ OutcomesOfCycle(health_cache[1].services)
    /\ Len(c_return) > 0 =>
          /\ TasksDone = 1..NumServices
          /\ OutcomesOfCycle(c_return[1].services)
    /\ TasksDone # 1..NumServices =>
          /\ last_update = NoTime
          /\ c_pc \in {"call", "gather"}

\* witness of C24: the call is suspended with some but not all of the probes
\* returned, and the cache slot is still empty
C24_Witness ==
    /\ c_pc = "gather"
    /\ Cardinality(TasksDone) = NumServices - 1
    /\ Len(health_cache) = 0
    /\ Len(c_return) = 0


\* the number of outcomes of the returned aggregate with a status in S
Outcomes(S) ==
    Cardinality({i \in 1..Len(c_return[1].services) :
                    c_return[1].services[i].status \in S})

MaxDevices == 2

\* the devices of the hub: a sensor with all three attributes, a sensor that
\* reads 0 (as a number and as a string) and has no battery, a sensor with an
\* unreadable temperature, sensors without label and without id, and a switch
HubDevices ==
    {Device(TRUE, "Kitchen", "Sensor", "1", Attr("num", 72), Attr("num", 40),
            Attr("num", 90)),
     Device(TRUE, "Freezer", "Sensor", "2", Attr("num", 0), Attr("str", 0),
            Attr("none", 0)),
     Device(TRUE, "Attic", "Sensor", "3", Attr("bad", 0), Attr("num", 40),
            Attr("num", 90)),
     Device(TRUE, Absent, "Sensor", "4", Attr("num", 68), Attr("num", 45),
            Attr("num", 80)),
     Device(TRUE, "Porch", "Sensor", Absent, Attr("str", 55), Attr("none", 0),
            Attr("num", 70)),
     Device(FALSE, "Lamp", "Switch", "6", Attr("none", 0), Attr("none", 0),
            Attr("none", 0))}

\* lifespan of the hubitat process: the collector task is created after the
\* bus answered the ping; otherwise the startup fails and nothing runs
HubStartup(ping_ok) ==
    /\ k_pc = "none"
    /\ k_pc' = IF ping_ok THEN "top" ELSE "failed"
    /\ UNCHANGED <<k_event, dashboardVars, dbVars, hcVars>>

\* top of the collector's loop: redis_client is set, the task is suspended in
\* await hubitat_api.get_all_devices()
CollectorTop ==
    /\ k_pc = "top"
    /\ k_pc' = "request"
    /\ UNCHANGED <<k_event, dashboardVars, dbVars, hcVars>>

\* the request returns the devices, or raises (hub unreachable, HTTP error):
\* lines 396-405, to the sleep after the try body or to the sleep of the
\* except clause
CollectorReturn(hub_ok, devices, bus_ok) ==
    /\ k_pc = "request"
    /\ hub_ok \/ devices = <<>>
    /\ LET r == IF hub_ok /\ devices # <<>>
                THEN publish_sensor_readings(devices, bus_ok)
                ELSE [published |-> <<>>, raised |-> FALSE]
       IN  k_event' = HubEvent(hub_ok, bus_ok, devices, r.published, r.raised)
    /\ k_pc' = AfterIteration(~hub_ok)
    /\ UNCHANGED <<dashboardVars, dbVars, hcVars>>

\* asyncio.sleep(300) or asyncio.sleep(60) is over: while True
CollectorSlept ==
    /\ k_pc \in {"sleep", "sleep_error"}
    /\ k_pc' = "top"
    /\ UNCHANGED <<k_event, dashboardVars, dbVars, hcVars>>

\* health_monitor, top of the loop: suspended in get_system_health
MonitorLoopTop ==
    /\ m_pc = "top"
    /\ m_pc' = "refresh"
    /\ event' = OtherEvent
    /\ UNCHANGED <<objVars, otherVars, s_pc, redis_up, m_wake, m_cycle, h_pc, h_cycle,
                   cycles, cache_cycle, bus>>

\* the try body of health_monitor ends: at the sleep of line 688, or, when
\* get_system_health or the publish raised, at the sleep of line 692
MonitorLoopReturn(failed) ==
    /\ m_pc = "refresh"
    /\ m_pc' = AfterIteration(failed)
    /\ event' = Event(IF failed THEN "monitor error" ELSE "monitor refreshed", 0, FALSE)
    /\ UNCHANGED <<objVars, otherVars, s_pc, redis_up, m_wake, m_cycle, h_pc, h_cycle,
                   cycles, cache_cycle, bus>>

\* asyncio.sleep(60) of health_monitor is over: while True
MonitorLoopSlept ==
    /\ m_pc \in {"sleep", "sleep_error"}
    /\ m_pc' = "top"
    /\ event' = OtherEvent
    /\ UNCHANGED <<objVars, otherVars, s_pc, redis_up, m_wake, m_cycle, h_pc, h_cycle,
                   cycles, cache_cycle, bus>>

NextLoops ==
    \/ Startup
    \/ \E ping_ok \in BOOLEAN : HubStartup(ping_ok)
    \/ CollectorTop
    \/ \E hub_ok, bus_ok \in BOOLEAN :
        \E devices \in UNION {[1..n -> HubDevices] : n \in 0..MaxDevices} :
            CollectorReturn(hub_ok, devices, bus_ok)
    \/ CollectorSlept
    \/ MonitorLoopTop
    \/ \E failed \in BOOLEAN : MonitorLoopReturn(failed)
    \/ MonitorLoopSlept

\* the event loop resumes a task whose sleep is over, and runs a task that is
\* ready to make its next call
SpecLoops ==
    /\ InitServices
    /\ [][NextLoops]_vars
    /\ WF_vars(CollectorSlept) /\ WF_vars(CollectorTop)
    /\ WF_vars(MonitorLoopSlept) /\ WF_vars(MonitorLoopTop)


\* C26: a failure inside one iteration of a background loop is caught and
\* does not end the loop: after an iteration of sensor_data_collector in which
\* the request to the hub raised, the collector makes its next request, and
\* after an iteration of health_monitor that raised, the monitor starts its
\* next refresh.
C26_LoopSurvivesFailure ==
    /\ (k_pc # "request" /\ ~k_event.hub_ok) ~> (k_pc = "request")
    /\ (event.op = "monitor error") ~> (m_pc = "refresh")

\* witness of C26: both loops are in the sleep of their except clause
C26_Witness ==
    /\ k_pc = "sleep_error"
    /\ ~k_event.hub_ok
    /\ m_pc = "sleep_error"
    /\ event.op = "monitor error"


(***************************************************************************)
(* Claims on concurrent cycles and on the two reducers                     *)
(***************************************************************************)

\* C27: the cache slot never regresses to an older cycle: cycles being
\* numbered in the order they launched their probes, once the aggregate of a
\* cycle is in the slot, no cycle launched before it writes the slot.
C27_NeverOlderCycle ==
    [][cache_cycle'.services >= cache_cycle.services]_vars


\* the statuses both dashboards rank by their own table entries
SharedStatuses == {"healthy", "degraded", "unhealthy", "offline", "timeout", "error"}

\* C28: for every list of outcomes whose statuses are among healthy, degraded,
\* unhealthy, offline, timeout and error, the reducer of main.py and the
\* reducer of main_simple.py compute the same overall status.
C28_ReducersAgree ==
    (r_pc = "done" /\ \A i \in 1..Len(r_statuses) : r_statuses[i] \in SharedStatuses)
        => r_overall = r_overall_simple

\* witness of C28: a list of three shared statuses that both reducers have
\* reduced to "timeout", the first of the statuses of lowest rank
C28_Witness ==
    /\ r_pc = "done"
    /\ r_statuses = <<"degraded", "timeout", "offline">>
    /\ r_overall = "timeout"
    /\ r_overall_simple = "timeout"


(***************************************************************************)
(* Claims on publish_sensor_readings                                       *)
(***************************************************************************)

\* the collector has just run publish_sensor_readings on the devices of
\* k_event, and the bus took every message handed to it
PublishedToBus ==
    /\ k_pc = "sleep"
    /\ k_event.hub_ok /\ k_event.bus_ok
    /\ k_event.devices # <<>>

\* a device publish_sensor_readings is to publish: it has a temperature or
\* humidity capability, its label, type and id, and no unreadable value
PublishableDevice(device) ==
    /\ device.sensor
    /\ Absent \notin {device.label, device.type, device.id}
    /\ \A a \in {device.temperature, device.humidity, device.battery} : a.kind # "bad"

\* C29: each device of the list that has a temperature or humidity capability
\* and convertible values is published on sensor-data, whatever devices
\* precede it: a malformed device (unreadable value, or missing label, type or
\* id) only skips itself.
C29_MalformedSkipsOnlyItself ==
    PublishedToBus =>
        \A i \in 1..Len(k_event.devices) :
            PublishableDevice(k_event.devices[i]) =>
                \E j \in 1..Len(k_event.published) :
                    /\ k_event.published[j].channel = "sensor-data"
                    /\ k_event.published[j].raw_device_id = k_event.devices[i].id

\* C30: a sensor-data message carries, for temperature, humidity and battery,
\* the numeric value v the device's attribute holds, v = 0 included; a field
\* is published as absent only when the attribute is absent.
C30_ZeroIsPublished ==
    PublishedToBus =>
        \A j \in 1..Len(k_event.published) :
            \E i \in 1..Len(k_event.devices) :
                LET device == k_event.devices[i]
                    msg == k_event.published[j]
                    Carried(a) == IF a.kind = "none" THEN NoValue ELSE a.v
                IN  /\ msg.raw_device_id = device.id
                    /\ msg.temperature = Carried(device.temperature)
                    /\ msg.humidity = Carried(device.humidity)
                    /\ msg.battery_level = Carried(device.battery)

====
